---- MODULE Spec2Model ----
(***************************************************************************)
(* A state-machine model of src/src/App.js: the feedback kiosk component   *)
(* (form -> folding -> floating -> sent -> form), its colour rotation,     *)
(* image preloader, WebSocket connector, animation loop and swipe gesture. *)
(*                                                                         *)
(* React state is modelled as committed state: a handler and the re-render *)
(* it causes are one step.  The passive effect that depends on             *)
(* currentColor (the preloader) is modelled as pending after the commit    *)
(* that changes the colour; it is flushed by its own step or, as React     *)
(* does, at the start of the next update.  The one exception to "one step" *)
(* is the touch-move handler: React renders the updates of a continuous    *)
(* event in a later task, so between handleSwipeUp and the render that     *)
(* shows stage sent the handlers of the previous render stay installed and *)
(* further events reach them.                                              *)
(***************************************************************************)
EXTENDS Integers, Sequences, FiniteSets, TLC

\* ----------------------------------------------------------------- bounds
\* Number of images one preload run loads.  The source loads 100 (the loop
\* of App.js:72); the images are interchangeable for the preloader, so the
\* model scales their number down.
NumImages == 3
\* Number of resets (colour rotations) after which the form is no longer
\* used, and which the resets run and pending never exceed.
MaxCycles == 2

\* -------------------------------------------------------------- constants
COLORS == <<"blue", "red", "green", "yellow", "purple", "orange">>
ColorSet == {COLORS[i] : i \in DOMAIN COLORS}
ANIMATION_DURATION == 5000
TOTAL_FRAMES == 99
LAST_FRAME == 100
SWIPE_THRESHOLD == 100

\* localStorage.getItem returns null for an absent entry
NoColor == "null"

\* ------------------------------------------------------------ input sets
Names == {"", "Ada"}
Emails == {"", "ada@example.com"}
Messages == {"", "Great demo"}
\* clientY values of touch events: differences of 100 and 101 both occur
TouchYs == {100, 200, 201}
\* timestamp of the first animation-frame callback of a run, and the time
\* between two consecutive callbacks
FirstStamps == {1000}
Deltas == {1250, 2500, 3750}
\* the same for the animation scenario, with callbacks as little as 1 ms apart
FineFirstStamps == {120, 1000}
FineDeltas == {1, 7, 5003}
\* process.env.REACT_APP_WS_URL: <<>> when not defined, else <<value>>
EnvUrls == {<<>>, <<"">>, <<"wss://feedback.example.org/ws">>}
\* window.location.hostname, .protocol and .port ("" for the default port)
HostNames == {"localhost", "127.0.0.1", "app.example.com", "10.0.0.7"}
Protocols == {"http:", "https:"}
Ports == {"", "3000", "8443"}
Environments ==
    [REACT_APP_WS_URL : EnvUrls, hostname : HostNames, protocol : Protocols, port : Ports]
\* the environment of a development server
DevEnvironment ==
    [REACT_APP_WS_URL |-> <<>>, hostname |-> "localhost", protocol |-> "http:", port |-> "3000"]

VARIABLES
    formData,        \* useState: [name, email, message]
    stage,           \* useState: "form" | "folding" | "floating" | "sent"
    currentImage,    \* useState: tracked displayed frame number
    currentColor,    \* useState: the current colour theme
    touchStart,      \* useState: <<>> (null) or <<clientY>>
    imagesPreloaded, \* useState: the preloader's ready flag
    wsReadyState,    \* wsRef.current.readyState
    wire,            \* messages sent on the connection, in order
    animationRef,    \* TRUE iff a requested animation frame is outstanding
    animCleanup,     \* TRUE iff the animation effect's last run returned a cleanup
    startTimeRef,    \* startTimeRef.current; 0 stands for null (both are falsy)
    currentFrameRef, \* currentFrameRef.current
    lastTimestamp,   \* timestamp of the latest callback of the current run; 0 if none
    willChange,      \* backgroundRef.current.style.willChange
    surfaceWritten,  \* TRUE iff the latest animate callback wrote the background image
    backgroundImage, \* backgroundRef.current.style.backgroundImage: [color, frame]
    imageCache,      \* imageCache.current
    lastFeedbackColor, \* localStorage entry 'lastFeedbackColor'
    preloads,        \* preload runs in flight (images loading or grace timer pending)
    preloadEffectPending, \* the currentColor effect has not yet run for the committed colour
    resetTimers,     \* number of pending 2000 ms reset timers
    timerColor,      \* currentColor in the closure of the pending reset timers
    commitPending,   \* setStage('sent') is queued and its render has not run yet
    cycles,          \* number of resets run: one for each completed feedback cycle
    environment,     \* process.env.REACT_APP_WS_URL and window.location
    WS_URL,          \* the module constant WS_URL: <<>> before the module is evaluated
    mounted          \* the App component is in the tree

urlVars == <<environment, WS_URL>>

vars == <<formData, stage, currentImage, currentColor, touchStart, imagesPreloaded,
          wsReadyState, wire, animationRef, animCleanup, startTimeRef, currentFrameRef,
          lastTimestamp, willChange, surfaceWritten, backgroundImage, imageCache,
          lastFeedbackColor, preloads, preloadEffectPending, resetTimers, timerColor,
          commitPending, cycles, urlVars, mounted>>

formVars == <<formData, stage, currentImage, currentColor, touchStart>>
wsVars == <<wsReadyState, wire>>
animVars == <<animationRef, animCleanup, startTimeRef, currentFrameRef, lastTimestamp,
              willChange, surfaceWritten>>
preloadVars == <<imagesPreloaded, imageCache, preloads, preloadEffectPending>>

EmptyForm == [name |-> "", email |-> "", message |-> ""]
EmptyCache == [theme |-> NoColor, ok |-> 0, failed |-> 0]

\* ------------------------------------------- endpoint (lines 7-22)
\* if (process.env.REACT_APP_WS_URL): defined and not the empty string
Configured(env) == env.REACT_APP_WS_URL # <<>> /\ env.REACT_APP_WS_URL[1] # ""

IsLocal(env) == env.hostname = "localhost" \/ env.hostname = "127.0.0.1"

\* the production fallback of lines 17-19
SameHostUrl(env) ==
    LET protocol == IF env.protocol = "https:" THEN "wss:" ELSE "ws:"
        host == env.hostname \o (IF env.port # "" THEN ":" \o env.port ELSE "")
    IN protocol \o "//" \o host

\* the host tested before the configured value
getWebSocketUrl_HostFirst(env) ==
    IF IsLocal(env) THEN "ws://localhost:3001"
    ELSE IF Configured(env) THEN env.REACT_APP_WS_URL[1]
    ELSE SameHostUrl(env)

getWebSocketUrl(env) ==
    IF Configured(env) THEN env.REACT_APP_WS_URL[1]
    ELSE IF IsLocal(env) THEN "ws://localhost:3001"
    ELSE SameHostUrl(env)

\* ------------------------------------------------------- colour rotation
\* the pool without the filter on the last colour
ColorPool_NoFilter(explicitPrevious, lastColor) == COLORS

\* COLORS.filter(color => color !== lastColor), falling back to COLORS.
\* The parameter of getNextColor is not read by its body.
ColorPool(explicitPrevious, lastColor) ==
    LET availableColors == SelectSeq(COLORS, LAMBDA color : color # lastColor)
    IN IF Len(availableColors) > 0 THEN availableColors ELSE COLORS

\* The colours getNextColor may return, given what storage holds.
getNextColor(explicitPrevious, lastColor) ==
    LET colorPool == ColorPool(explicitPrevious, lastColor)
    IN {colorPool[i] : i \in DOMAIN colorPool}

\* ------------------------------------------------------------- rendering
getBackgroundImage(st, color, image) ==
    IF st = "form" THEN [color |-> color, frame |-> 1]
    ELSE IF st \in {"folding", "floating", "sent"} THEN [color |-> color, frame |-> image]
    ELSE [color |-> NoColor, frame |-> 0]

\* React writes the style property only when the rendered value changed.
Rendered(st, color, image, surface) ==
    IF getBackgroundImage(st, color, image) # getBackgroundImage(stage, currentColor, currentImage)
    THEN getBackgroundImage(st, color, image)
    ELSE surface


\* ----------------------------------------------------------- wire format
Register == [type |-> "register", clientType |-> "tablet"]
NewFeedback(fd, color) ==
    [type |-> "new_feedback",
     feedback |-> [name |-> fd.name, email |-> fd.email,
                   message |-> fd.message, color |-> color]]

\* ------------------------------------------------- preloader (lines 65-112)
\* One run of preloadImages: the images still loading, those loaded and
\* being decoded, those settled well or badly, and whether Promise.all has
\* resolved and the 100 ms timer is pending.
NewPreload(color) ==
    [theme |-> color, loading |-> NumImages, decoding |-> 0,
     ok |-> 0, failed |-> 0, grace |-> FALSE]

\* What the pending currentColor effect does when React flushes it: the
\* cleanup empties the cache, preloadImages clears the flag and starts a run.
FlushedReady == IF preloadEffectPending THEN FALSE ELSE imagesPreloaded
FlushedPreloads ==
    IF preloadEffectPending THEN Append(preloads, NewPreload(currentColor)) ELSE preloads
FlushedCache == IF preloadEffectPending THEN EmptyCache ELSE imageCache

FlushPassive ==
    /\ imagesPreloaded' = FlushedReady
    /\ preloads' = FlushedPreloads
    /\ imageCache' = FlushedCache
    /\ preloadEffectPending' = FALSE

\* --------------------------------------- animation effect (lines 143-201)
\* a cleanup that leaves the requested frame outstanding
CancelFrame_Keep(outstanding) == outstanding

\* cancelAnimationFrame(animationRef.current): no requested frame is left
CancelFrame(outstanding) == FALSE

\* The effect without its test of the stage: it animates whenever ready.
AnimEffect_NoStageTest(newStage, newColor, newReady) ==
    IF <<newStage, newColor, newReady>> = <<stage, currentColor, imagesPreloaded>>
    THEN UNCHANGED animVars
    ELSE /\ willChange' = IF animCleanup THEN "auto" ELSE willChange
         /\ IF newReady
            THEN /\ startTimeRef' = 0
                 /\ currentFrameRef' = 1
                 /\ animationRef' = TRUE
                 /\ animCleanup' = TRUE
                 /\ lastTimestamp' = 0
                 /\ surfaceWritten' = FALSE
            ELSE /\ animationRef' = IF animCleanup THEN FALSE ELSE animationRef
                 /\ animCleanup' = FALSE
                 /\ lastTimestamp' = IF animCleanup THEN 0 ELSE lastTimestamp
                 /\ UNCHANGED <<startTimeRef, currentFrameRef, surfaceWritten>>

\* The effect with dependencies [stage, currentColor, imagesPreloaded], run
\* after a commit to newStage, newColor, newReady: the previous run's cleanup
\* first, then the body.
AnimEffect(newStage, newColor, newReady) ==
    IF <<newStage, newColor, newReady>> = <<stage, currentColor, imagesPreloaded>>
    THEN UNCHANGED animVars
    ELSE /\ willChange' = IF animCleanup THEN "auto" ELSE willChange
         /\ IF newStage = "folding" /\ newReady
            THEN /\ startTimeRef' = 0
                 /\ currentFrameRef' = 1
                 /\ animationRef' = TRUE
                 /\ animCleanup' = TRUE
                 /\ lastTimestamp' = 0
                 /\ surfaceWritten' = FALSE
            ELSE /\ animationRef' = IF animCleanup THEN CancelFrame(animationRef)
                                   ELSE animationRef
                 /\ animCleanup' = FALSE
                 /\ lastTimestamp' = IF animCleanup THEN 0 ELSE lastTimestamp
                 /\ UNCHANGED <<startTimeRef, currentFrameRef, surfaceWritten>>

Min(a, b) == IF a < b THEN a ELSE b

\* the frame computed over 100 steps instead of 99
FrameNumber_HundredSteps(elapsed) ==
    ((Min(elapsed, ANIMATION_DURATION) * LAST_FRAME) \div ANIMATION_DURATION) + 1

\* Math.floor(Math.min(elapsed / ANIMATION_DURATION, 1) * TOTAL_FRAMES) + 1
FrameNumber(elapsed) ==
    ((Min(elapsed, ANIMATION_DURATION) * TOTAL_FRAMES) \div ANIMATION_DURATION) + 1

\* progress < 1
InProgress(elapsed) == elapsed < ANIMATION_DURATION

\* The frame written to the surface by one callback: frameNumber when it
\* differs from the frame last written, otherwise no write.
FrameChanged(frameNumber, shown) == frameNumber # shown

animate(timestamp) ==
    /\ animationRef
    /\ LET start == IF startTimeRef = 0 THEN timestamp ELSE startTimeRef
           elapsed == timestamp - start
           frameNumber == FrameNumber(elapsed)
           changed == FrameChanged(frameNumber, currentFrameRef)
           surface == IF changed THEN [color |-> currentColor, frame |-> frameNumber]
                      ELSE backgroundImage
           hinted == IF changed /\ frameNumber = 1 THEN "background-image" ELSE willChange
       IN /\ startTimeRef' = start
          /\ surfaceWritten' = changed
          /\ currentFrameRef' = IF changed THEN frameNumber ELSE currentFrameRef
          /\ IF InProgress(elapsed)
             THEN /\ animationRef' = TRUE
                  /\ lastTimestamp' = timestamp
                  /\ willChange' = hinted
                  /\ backgroundImage' = surface
                  /\ UNCHANGED <<animCleanup, currentImage, stage, preloadVars>>
             ELSE \* setCurrentImage(100); setStage('floating'); the re-render
                  \* runs the effect's cleanup and writes the rendered frame
                  /\ animationRef' = FALSE
                  /\ animCleanup' = FALSE
                  /\ lastTimestamp' = 0
                  /\ willChange' = "auto"
                  /\ currentImage' = LAST_FRAME
                  /\ stage' = "floating"
                  /\ backgroundImage' = Rendered("floating", currentColor, LAST_FRAME, surface)
                  /\ FlushPassive
    /\ UNCHANGED <<formData, currentColor, touchStart, wsVars, lastFeedbackColor,
                   resetTimers, timerColor, commitPending, cycles, urlVars, mounted>>

\* The timestamps the next callback may carry.
NextStamps(firsts, deltas) ==
    IF lastTimestamp = 0 THEN firsts ELSE {lastTimestamp + d : d \in deltas}

AnimationFrame == \E timestamp \in NextStamps(FirstStamps, Deltas) : animate(timestamp)


\* ------------------------------------------------ form input (lines 288-317)
\* onChange of one field; the form is rendered only in stage form.
\* the form left in the tree whatever the stage
FormRendered_Always(st) == TRUE

\* {stage === 'form' && (<div className="form-container">...)}
FormRendered(st) == st = "form"

\* Reset timers of one gesture fire within a rendering delay of each other;
\* no key is pressed between them.
onChange(field, value) ==
    /\ mounted
    /\ FormRendered(stage)
    /\ resetTimers = 0
    /\ cycles < MaxCycles
    /\ value # formData[field]
    /\ formData' = [formData EXCEPT ![field] = value]
    /\ FlushPassive
    /\ AnimEffect(stage, currentColor, FlushedReady)
    /\ UNCHANGED <<stage, currentImage, currentColor, touchStart, wsVars, backgroundImage,
                   lastFeedbackColor, resetTimers, timerColor, commitPending, cycles, urlVars, mounted>>

FieldInput ==
    \/ \E v \in Names : onChange("name", v)
    \/ \E v \in Emails : onChange("email", v)
    \/ \E v \in Messages : onChange("message", v)

\* -------------------------------------------- handleSubmit (lines 203-213)
FieldsFilled(fd) == fd.name # "" /\ fd.email # "" /\ fd.message # ""

\* handleSubmit without its test of the ready flag
SubmitAccepted_NoReadyTest(fd, ready) == FieldsFilled(fd)

\* The test that lets a submit through.
SubmitAccepted(fd, ready) == FieldsFilled(fd) /\ ready

handleSubmit ==
    /\ mounted
    /\ FormRendered(stage)
    /\ resetTimers = 0
    /\ cycles < MaxCycles
    /\ IF SubmitAccepted(formData, imagesPreloaded)
       THEN /\ stage' = "folding"
            /\ currentImage' = 1
            /\ FlushPassive
            /\ AnimEffect("folding", currentColor, FlushedReady)
            /\ backgroundImage' = Rendered("folding", currentColor, 1, backgroundImage)
            /\ UNCHANGED <<formData, currentColor, touchStart, wsVars, lastFeedbackColor,
                           resetTimers, timerColor, commitPending, cycles, urlVars, mounted>>
       ELSE \* an empty field: nothing; not ready: a log line and return
            UNCHANGED vars

\* ------------------------------------ touch handlers (lines 215-257)
handleTouchStart(clientY) ==
    IF stage = "floating"
    THEN /\ touchStart' = <<clientY>>
         /\ FlushPassive
         /\ AnimEffect(stage, currentColor, FlushedReady)
         /\ UNCHANGED <<formData, stage, currentImage, currentColor, wsVars, backgroundImage,
                        lastFeedbackColor, resetTimers, timerColor, commitPending, cycles, urlVars, mounted>>
    ELSE UNCHANGED vars

\* diff >= 100
SwipeDetected_AtLeast(diff) == diff >= SWIPE_THRESHOLD

\* diff > 100
SwipeDetected(diff) == diff > SWIPE_THRESHOLD

\* sending whatever the connection's state
CanSend_Always(readyState) == TRUE

\* sending on any connection that has not closed, open or not
CanSend_NotClosed(readyState) == readyState # "CLOSED"

\* wsRef.current && wsRef.current.readyState === WebSocket.OPEN
CanSend(readyState) == readyState = "OPEN"

\* the payload with name and email taken from each other's field
FeedbackPayload_Swapped(fd, color) ==
    NewFeedback([name |-> fd.email, email |-> fd.name, message |-> fd.message], color)

\* The message handleSwipeUp puts on the wire.
FeedbackPayload(fd, color) == NewFeedback(fd, color)

\* The send, setStage('sent') and setTimeout of handleSwipeUp.  It runs in a
\* touch-move event, whose updates React renders in a later task: the stage
\* update is queued here and committed by RenderSent.
handleSwipeUp ==
    /\ wire' = IF CanSend(wsReadyState)
               THEN Append(wire, FeedbackPayload(formData, currentColor))
               ELSE wire
    /\ commitPending' = TRUE
    /\ resetTimers' = resetTimers + 1
    /\ timerColor' = currentColor
    /\ UNCHANGED <<formVars, wsReadyState, animVars, preloadVars, backgroundImage,
                   lastFeedbackColor, cycles, urlVars, mounted>>

\* The render of the queued setStage('sent').
RenderSent ==
    /\ commitPending
    /\ commitPending' = FALSE
    /\ stage' = "sent"
    /\ FlushPassive
    /\ AnimEffect("sent", currentColor, FlushedReady)
    /\ backgroundImage' = Rendered("sent", currentColor, currentImage, backgroundImage)
    /\ UNCHANGED <<formData, currentImage, currentColor, touchStart, wsVars,
                   lastFeedbackColor, resetTimers, timerColor, cycles, urlVars, mounted>>

handleTouchMove(clientY) ==
    IF stage = "floating" /\ touchStart # <<>>
    THEN LET touchEnd == clientY
             diff == touchStart[1] - touchEnd
         IN IF SwipeDetected(diff) THEN handleSwipeUp ELSE UNCHANGED vars
    ELSE UNCHANGED vars

TouchStart == \E y \in TouchYs : mounted /\ handleTouchStart(y)
\* a touch-move event that finds no commit waiting for its render
TouchMove == \E y \in TouchYs : mounted /\ ~commitPending /\ handleTouchMove(y)

\* a touch-move event that arrives after a commit and before its render: the
\* handler installed is still the one that sees stage floating
StaleTouchMove ==
    \E y \in TouchYs :
        /\ mounted /\ commitPending
        /\ cycles + resetTimers < MaxCycles
        /\ handleTouchMove(y)

\* The colour the reset step moves to, given the closure's colour and storage.
NextColors(closureColor, stored) == getNextColor(closureColor, stored)

\* the reset without setFormData: the fields keep what was typed
ResetForm_Keep == formData

\* The form the reset step leaves behind.
ResetForm == EmptyForm

\* the reset without setCurrentImage: the tracked frame stays
ResetImage_Keep == currentImage

\* setCurrentImage(0)
ResetImage == 0

\* The 2000 ms timer of handleSwipeUp (lines 250-256).
\* The render of a commit takes a task, the timer 2000 ms: the timer
\* never fires first.
ResetTimer ==
    /\ resetTimers > 0
    /\ ~commitPending
    /\ resetTimers' = resetTimers - 1
    /\ timerColor' = IF resetTimers = 1 THEN NoColor ELSE timerColor
    /\ \E nextColor \in NextColors(timerColor, lastFeedbackColor) :
          /\ lastFeedbackColor' = nextColor
          /\ IF mounted
             THEN /\ currentColor' = nextColor
                  /\ preloadEffectPending' = (nextColor # currentColor)
                  /\ AnimEffect("form", nextColor, FlushedReady)
                  /\ backgroundImage' = Rendered("form", nextColor, ResetImage, backgroundImage)
                  /\ formData' = ResetForm
                  /\ stage' = "form"
                  /\ currentImage' = ResetImage
                  /\ touchStart' = <<>>
                  /\ imagesPreloaded' = FlushedReady
                  /\ preloads' = FlushedPreloads
                  /\ imageCache' = FlushedCache
             ELSE \* the state setters of an unmounted component do nothing;
                  \* getNextColor has run all the same
                  UNCHANGED <<formVars, animVars, preloadVars, backgroundImage>>
    /\ cycles' = cycles + 1
    /\ UNCHANGED <<wsVars, commitPending, urlVars, mounted>>

\* ---------------------------------------- preloader events (lines 65-112)
\* The currentColor effect, flushed on its own.
PreloadEffect ==
    /\ preloadEffectPending
    /\ FlushPassive
    /\ AnimEffect(stage, currentColor, FALSE)
    /\ UNCHANGED <<formVars, wsVars, backgroundImage, lastFeedbackColor, resetTimers, timerColor, commitPending, cycles, urlVars, mounted>>

RemoveAt(seq, i) == SubSeq(seq, 1, i - 1) \o SubSeq(seq, i + 1, Len(seq))

\* Promise.all resolves once no image of the run is loading or decoding.
AllSettled(r) == r.loading = 0 /\ r.decoding = 0

\* Run i after one of its images changed state: when all have settled the
\* then-callback stores the handles and starts the 100 ms timer.
Settle(i, r) ==
    /\ IF AllSettled(r)
       THEN /\ preloads' = [preloads EXCEPT ![i] = [r EXCEPT !.grace = TRUE]]
            /\ imageCache' = [theme |-> r.theme, ok |-> r.ok, failed |-> r.failed]
       ELSE /\ preloads' = [preloads EXCEPT ![i] = r]
            /\ UNCHANGED imageCache
    /\ UNCHANGED <<formVars, wsVars, animVars, backgroundImage, imagesPreloaded,
                   preloadEffectPending, lastFeedbackColor, resetTimers, timerColor, commitPending, cycles, urlVars, mounted>>

\* img.onload: decode when the platform has it, else resolve.
ImgOnload(i) ==
    /\ preloads[i].loading > 0
    /\ \E hasDecode \in BOOLEAN :
          Settle(i, IF hasDecode
                    THEN [preloads[i] EXCEPT !.loading = @ - 1, !.decoding = @ + 1]
                    ELSE [preloads[i] EXCEPT !.loading = @ - 1, !.ok = @ + 1])

\* img.onerror = reject: Promise.all rejects and the run never completes
ImgOnerror_Reject(i) ==
    /\ preloads[i].loading > 0
    /\ preloads' = RemoveAt(preloads, i)
    /\ UNCHANGED <<formVars, wsVars, animVars, backgroundImage, imagesPreloaded, imageCache,
                   preloadEffectPending, lastFeedbackColor, resetTimers, timerColor, commitPending, cycles, urlVars, mounted>>

\* img.onerror = resolve
ImgOnerror(i) ==
    /\ preloads[i].loading > 0
    /\ Settle(i, [preloads[i] EXCEPT !.loading = @ - 1, !.failed = @ + 1])

\* img.decode().then(resolve).catch(resolve)
DecodeSettled(i) ==
    /\ preloads[i].decoding > 0
    /\ \E decoded \in BOOLEAN :
          Settle(i, IF decoded
                    THEN [preloads[i] EXCEPT !.decoding = @ - 1, !.ok = @ + 1]
                    ELSE [preloads[i] EXCEPT !.decoding = @ - 1, !.failed = @ + 1])

\* The value the 100 ms timer gives the ready flag.
GraceReady == TRUE

\* setTimeout(() => setImagesPreloaded(true), 100)
GraceTimer(i) ==
    /\ preloads[i].grace
    /\ resetTimers = 0
    /\ preloads' = RemoveAt(FlushedPreloads, i)
    /\ IF mounted
       THEN /\ imagesPreloaded' = IF preloadEffectPending THEN FALSE ELSE GraceReady
            /\ imageCache' = FlushedCache
            /\ preloadEffectPending' = FALSE
            /\ AnimEffect(stage, currentColor,
                          IF preloadEffectPending THEN FALSE ELSE GraceReady)
       ELSE UNCHANGED <<imagesPreloaded, imageCache, preloadEffectPending, animVars>>
    /\ UNCHANGED <<formVars, wsVars, backgroundImage, lastFeedbackColor, resetTimers, timerColor, commitPending, cycles, urlVars, mounted>>

ImageLoaded == \E i \in DOMAIN preloads : ImgOnload(i)
ImageFailed == \E i \in DOMAIN preloads : ImgOnerror(i)
ImageDecoded == \E i \in DOMAIN preloads : DecodeSettled(i)
PreloadDone == \E i \in DOMAIN preloads : GraceTimer(i)

\* -------------------------------------- WebSocket events (lines 114-141)
WsOpen ==
    /\ wsReadyState = "CONNECTING"
    /\ wsReadyState' = "OPEN"
    /\ wire' = Append(wire, Register)
    /\ UNCHANGED <<formVars, animVars, preloadVars, backgroundImage, lastFeedbackColor,
                   resetTimers, timerColor, commitPending, cycles, urlVars, mounted>>

\* the connection attempt fails: onerror, then onclose; both only log
WsError ==
    /\ wsReadyState = "CONNECTING"
    /\ wsReadyState' = "CLOSED"
    /\ UNCHANGED <<wire, formVars, animVars, preloadVars, backgroundImage,
                   lastFeedbackColor, resetTimers, timerColor, commitPending, cycles, urlVars, mounted>>

\* an open connection closes: onclose only logs
WsClose ==
    /\ wsReadyState = "OPEN"
    /\ wsReadyState' = "CLOSED"
    /\ UNCHANGED <<wire, formVars, animVars, preloadVars, backgroundImage,
                   lastFeedbackColor, resetTimers, timerColor, commitPending, cycles, urlVars, mounted>>

\* ------------------------------------- unmount (lines 109-111, 136-140, 192-199)
\* React removes the component: an effect still pending runs, then the
\* cleanup of each effect.  The animation cleanup cancels the requested
\* frame; whether backgroundRef.current is still attached when it runs
\* depends on the React version.  Pending timers, image loads and a socket
\* that is still connecting are left as they are.
Unmount ==
    /\ mounted
    /\ mounted' = FALSE
    /\ animationRef' = IF animCleanup THEN CancelFrame(animationRef) ELSE animationRef
    /\ animCleanup' = FALSE
    /\ lastTimestamp' = IF animCleanup THEN 0 ELSE lastTimestamp
    /\ \E attached \in BOOLEAN :
          willChange' = IF animCleanup /\ attached THEN "auto" ELSE willChange
    /\ wsReadyState' = IF wsReadyState = "OPEN" THEN "CLOSED" ELSE wsReadyState
    /\ imagesPreloaded' = FlushedReady
    /\ preloads' = FlushedPreloads
    /\ imageCache' = EmptyCache
    /\ preloadEffectPending' = FALSE
    /\ commitPending' = FALSE
    /\ UNCHANGED <<formVars, wire, startTimeRef, currentFrameRef, surfaceWritten,
                   backgroundImage, lastFeedbackColor, resetTimers, timerColor, cycles,
                   urlVars>>

\* ------------------------------------------------------------------ Init
\* The state after the first render and its mount effects: the colour drawn
\* by getNextColor() on a first-ever run, the first preload started, the
\* socket connecting.
Init ==
    /\ formData = EmptyForm
    /\ stage = "form"
    /\ currentImage = 0
    /\ currentColor \in getNextColor(NoColor, NoColor)
    /\ lastFeedbackColor = currentColor
    /\ touchStart = <<>>
    /\ imagesPreloaded = FALSE
    /\ wsReadyState = "CONNECTING"
    /\ wire = <<>>
    /\ animationRef = FALSE
    /\ animCleanup = FALSE
    /\ startTimeRef = 0
    /\ currentFrameRef = 1
    /\ lastTimestamp = 0
    /\ willChange = "auto"
    /\ surfaceWritten = FALSE
    /\ backgroundImage = getBackgroundImage("form", currentColor, 0)
    /\ imageCache = EmptyCache
    /\ preloads = <<NewPreload(currentColor)>>
    /\ preloadEffectPending = FALSE
    /\ resetTimers = 0
    /\ timerColor = NoColor
    /\ commitPending = FALSE
    /\ cycles = 0
    /\ environment = DevEnvironment
    /\ WS_URL = <<getWebSocketUrl(environment)>>
    /\ mounted = TRUE

Next ==
    \/ FieldInput
    \/ handleSubmit
    \/ AnimationFrame
    \/ TouchStart
    \/ TouchMove
    \/ RenderSent
    \/ ResetTimer
    \/ PreloadEffect
    \/ ImageLoaded
    \/ ImageFailed
    \/ ImageDecoded
    \/ PreloadDone
    \/ WsOpen
    \/ WsError
    \/ WsClose

Spec == Init /\ [][Next]_vars

TypeOK ==
    /\ formData \in [name : Names, email : Emails, message : Messages]
    /\ stage \in {"form", "folding", "floating", "sent"}
    /\ currentImage \in 0..LAST_FRAME
    /\ currentColor \in ColorSet
    /\ imagesPreloaded \in BOOLEAN
    /\ wsReadyState \in {"CONNECTING", "OPEN", "CLOSED"}
    /\ currentFrameRef \in 1..LAST_FRAME
    /\ lastFeedbackColor \in ColorSet
    /\ Len(preloads) <= MaxCycles
    /\ resetTimers \in 0..MaxCycles
    /\ commitPending \in BOOLEAN
    /\ mounted \in BOOLEAN
    /\ cycles \in 0..MaxCycles


\* ------------------------------------------------------- other behaviours
\* The page is loaded again: a new App instance, its state as in Init, with
\* the colour drawn against what the previous session left in localStorage.
Reload ==
    /\ formData' = EmptyForm
    /\ stage' = "form"
    /\ currentImage' = 0
    /\ \E nextColor \in getNextColor(NoColor, lastFeedbackColor) :
          /\ currentColor' = nextColor
          /\ lastFeedbackColor' = nextColor
          /\ backgroundImage' = getBackgroundImage("form", nextColor, 0)
          /\ preloads' = <<NewPreload(nextColor)>>
    /\ touchStart' = <<>>
    /\ imagesPreloaded' = FALSE
    /\ wsReadyState' = "CONNECTING"
    /\ wire' = <<>>
    /\ animationRef' = FALSE
    /\ animCleanup' = FALSE
    /\ startTimeRef' = 0
    /\ currentFrameRef' = 1
    /\ lastTimestamp' = 0
    /\ willChange' = "auto"
    /\ surfaceWritten' = FALSE
    /\ imageCache' = EmptyCache
    /\ preloadEffectPending' = FALSE
    /\ resetTimers' = 0
    /\ timerColor' = NoColor
    /\ commitPending' = FALSE
    /\ mounted' = TRUE
    /\ UNCHANGED <<cycles, urlVars>>

SessionNext == Next \/ Reload

\* Several sessions of the application, one after the other.
SessionSpec == Init /\ [][SessionNext]_vars

\* Animation-frame callbacks, timers, image loads and pending effects are
\* eventually delivered; user input and socket events need not happen.
Fairness ==
    /\ WF_vars(AnimationFrame)
    /\ WF_vars(RenderSent)
    /\ WF_vars(ResetTimer)
    /\ WF_vars(PreloadEffect)
    /\ WF_vars(ImageLoaded \/ ImageFailed)
    /\ WF_vars(ImageDecoded)
    /\ WF_vars(PreloadDone)

FairSpec == Spec /\ Fairness

\* One animation run with callbacks as little as 1 ms apart: the first
\* cycle up to stage floating, the socket left connecting.
AnimationFrameFine ==
    \E timestamp \in NextStamps(FineFirstStamps, FineDeltas) : animate(timestamp)

AnimNext ==
    \/ FieldInput
    \/ handleSubmit
    \/ ImageLoaded
    \/ ImageFailed
    \/ ImageDecoded
    \/ PreloadDone
    \/ AnimationFrameFine

AnimSpec == Init /\ [][AnimNext]_vars

\* The component may be unmounted at any moment.
TeardownNext == Next \/ Unmount

TeardownSpec == Init /\ [][TeardownNext]_vars

\* Every behaviour of a gesture, those included in which touch-move events
\* arrive faster than React renders them.
GestureNext == Next \/ StaleTouchMove

GestureSpec == Init /\ [][GestureNext]_vars

\* The module is evaluated in any environment: line 22 resolves the
\* endpoint, once, before the component exists.
UrlInit ==
    /\ environment \in Environments
    /\ WS_URL = <<>>
    /\ mounted = FALSE
    /\ formData = EmptyForm
    /\ stage = "form"
    /\ currentImage = 0
    /\ currentColor = COLORS[1]
    /\ lastFeedbackColor = NoColor
    /\ touchStart = <<>>
    /\ imagesPreloaded = FALSE
    /\ wsReadyState = "CLOSED"
    /\ wire = <<>>
    /\ animationRef = FALSE
    /\ animCleanup = FALSE
    /\ startTimeRef = 0
    /\ currentFrameRef = 1
    /\ lastTimestamp = 0
    /\ willChange = "auto"
    /\ surfaceWritten = FALSE
    /\ backgroundImage = [color |-> NoColor, frame |-> 0]
    /\ imageCache = EmptyCache
    /\ preloads = <<>>
    /\ preloadEffectPending = FALSE
    /\ resetTimers = 0
    /\ timerColor = NoColor
    /\ commitPending = FALSE
    /\ cycles = 0

\* const WS_URL = getWebSocketUrl()
ResolveUrl ==
    /\ WS_URL = <<>>
    /\ WS_URL' = <<getWebSocketUrl(environment)>>
    /\ UNCHANGED <<formVars, wsVars, animVars, preloadVars, backgroundImage,
                   lastFeedbackColor, resetTimers, timerColor, commitPending, cycles, environment,
                   mounted>>

UrlNext == ResolveUrl

UrlSpec == UrlInit /\ [][UrlNext]_vars


\* ================================================================ claims

StageCycle ==
    {<<"form", "folding">>, <<"folding", "floating">>,
     <<"floating", "sent">>, <<"sent", "form">>}

\* C1: the stage starts at form and every change of stage, whatever events
\* interleave, is one of form->folding, folding->floating, floating->sent,
\* sent->form.
C1_StageTransitions ==
    /\ stage = "form"
    /\ [][stage' # stage => <<stage, stage'>> \in StageCycle]_vars

\* a second cycle has gone all the way round to sent
C1_Witness == cycles >= 1 /\ stage = "sent"

\* C2: a handleSubmit call takes the stage from form to folding and sets the
\* displayed frame to 1 when the three fields are non-empty and the ready flag
\* is set; any other handleSubmit call leaves stage, FormData, displayed frame
\* and colour as they are; and the stage leaves form only so.
C2_SubmitGating ==
    /\ [][handleSubmit =>
            IF FieldsFilled(formData) /\ imagesPreloaded
            THEN stage' = "folding" /\ currentImage' = 1
            ELSE UNCHANGED <<stage, formData, currentImage, currentColor>>]_vars
    /\ [][stage = "form" /\ stage' # "form" =>
            /\ FieldsFilled(formData) /\ imagesPreloaded
            /\ stage' = "folding" /\ currentImage' = 1]_vars

\* the submit of the second cycle has been accepted
C2_Witness ==
    /\ cycles = 1 /\ stage = "folding" /\ currentImage = 1
    /\ FieldsFilled(formData) /\ imagesPreloaded

\* states in which handleSubmit refuses: a filled form before the images of
\* the new theme are ready, and a ready form with the email empty
C2_NotReadyReached ==
    cycles = 1 /\ stage = "form" /\ FieldsFilled(formData) /\ ~imagesPreloaded
C2_EmptyFieldReached ==
    /\ stage = "form" /\ imagesPreloaded
    /\ formData = [name |-> "Ada", email |-> "", message |-> "Great demo"]


Cleared ==
    /\ stage = "form"
    /\ formData = [name |-> "", email |-> "", message |-> ""]
    /\ currentImage = 0
    /\ touchStart = <<>>

\* C3: with animation-frame callbacks and timers delivered, every entry into
\* folding is followed by floating, and every entry into sent is followed by
\* form with FormData empty, displayed frame 0 and no gesture reference point.
C3_CycleClosure ==
    /\ (stage = "folding") ~> (stage = "floating")
    /\ commitPending ~> (stage = "sent")
    /\ (stage = "sent") ~> Cleared

\* back in form, cleared, after one whole cycle
C3_Witness == cycles = 1 /\ Cleared

\* C4: every rotation, at the end of a cycle or at the start of a new
\* session, chooses a colour other than the one chosen before it.
C4_NoRepeatColor == [][(ResetTimer \/ Reload) => currentColor' # currentColor]_vars

\* a new session (no animation has run in it) started after a cycle had
\* rotated the colour
C4_Witness ==
    /\ cycles >= 1 /\ stage = "form" /\ startTimeRef = 0 /\ currentFrameRef = 1
    /\ lastFeedbackColor = currentColor

CommitPayload ==
    [type |-> "new_feedback",
     feedback |-> [name |-> formData.name, email |-> formData.email,
                   message |-> formData.message, color |-> currentColor]]

\* C5: a commit (the step that schedules a reset) with the connection open
\* appends to the wire exactly the new_feedback message made of the FormData
\* and colour of that moment, and nothing else is ever sent but the register
\* message.
C5_FeedbackPayload ==
    /\ [][resetTimers' > resetTimers /\ wsReadyState = "OPEN" =>
            wire' = Append(wire, CommitPayload)]_vars
    /\ [][wire' # wire =>
            \/ wire' = Append(wire, [type |-> "register", clientType |-> "tablet"])
            \/ resetTimers' > resetTimers /\ wire' = Append(wire, CommitPayload)]_vars

\* the feedback of the cycle is the last message on the wire
C5_Witness ==
    /\ stage = "sent" /\ Len(wire) = 2
    /\ wire[2] = [type |-> "new_feedback",
                  feedback |-> [name |-> "Ada", email |-> "ada@example.com",
                                message |-> "Great demo", color |-> currentColor]]

\* C6: a commit while the connection is not open sends nothing, still
\* queues the move to sent and schedules the reset; a new_feedback message
\* reaches the wire only in a commit step taken with the connection open, so
\* a dropped one is never sent by a later event of another kind; the queued
\* move to sent is what the next render shows, and sent always has its reset
\* pending.
C6_DroppedSend ==
    /\ [][\A y \in TouchYs :
            /\ handleTouchMove(y)
            /\ stage = "floating" /\ touchStart # <<>>
            /\ touchStart[1] - y > 100
            /\ wsReadyState # "OPEN"
            => wire' = wire /\ commitPending' /\ resetTimers' = resetTimers + 1]_vars
    /\ [][wire' # wire /\ wire'[Len(wire')].type = "new_feedback" =>
            wsReadyState = "OPEN" /\ stage = "floating" /\ resetTimers' > resetTimers]_vars
    /\ [][commitPending /\ ~commitPending' => stage' = "sent"]_vars
    /\ [](commitPending => stage = "floating" /\ resetTimers > 0)
    /\ [](stage = "sent" => resetTimers > 0)

\* the cycle completed, the socket opened only after the commit, and the
\* feedback is not on the wire
C6_Witness ==
    /\ cycles = 1 /\ stage = "form" /\ wsReadyState = "OPEN"
    /\ wire = <<[type |-> "register", clientType |-> "tablet"]>>

C7_BoundaryReached == stage = "floating" /\ touchStart = <<200>>


CacheHolds(color) ==
    imageCache.theme = color /\ imageCache.ok + imageCache.failed = NumImages

\* C8: the ready flag is raised only by a preload run of the current theme
\* all of whose images have settled, and whenever the stage goes from form
\* to folding every image of the current theme has settled, no preload or
\* preload effect is outstanding and the cache holds that theme's handles,
\* in the first cycle and after every rotation.
C8_PreloadBeforePlay ==
    /\ [][~imagesPreloaded /\ imagesPreloaded' =>
            \E i \in DOMAIN preloads :
                /\ preloads[i].theme = currentColor
                /\ preloads[i].grace
                /\ preloads[i].loading = 0 /\ preloads[i].decoding = 0
                /\ preloads[i].ok + preloads[i].failed = NumImages]_vars
    /\ [][stage = "form" /\ stage' = "folding" =>
            /\ ~preloadEffectPending
            /\ preloads = <<>>
            /\ CacheHolds(currentColor)
            /\ imagesPreloaded' /\ imageCache' = imageCache]_vars

\* C9: with image events and timers delivered, a cleared ready flag is
\* always raised again, whatever number of images fail to load or decode;
\* and a settled image is never loaded again.
C9_PreloadFaultTolerance ==
    /\ (~imagesPreloaded) ~> imagesPreloaded
    /\ [][\A i \in DOMAIN preloads :
            Len(preloads') = Len(preloads) =>
                /\ preloads'[i].loading <= preloads[i].loading
                /\ preloads'[i].loading + preloads'[i].decoding
                     <= preloads[i].loading + preloads[i].decoding
                /\ preloads'[i].failed >= preloads[i].failed]_vars

\* ready although every image of the theme failed
C9_Witness ==
    imagesPreloaded /\ imageCache.theme = currentColor /\ imageCache.failed = NumImages

Elapsed == lastTimestamp - startTimeRef

\* C10: in an animation run the frame number is floor(min(elapsed/5000, 1) *
\* 99) + 1: it lies in 1..100, is 1 at elapsed 0, never decreases from one
\* callback to the next, is 100 exactly when elapsed has reached 5000, and
\* the surface is written exactly when the frame number changes, with the
\* new, larger frame.
C10_AnimationMonotone ==
    /\ [](currentFrameRef \in 1..100)
    /\ [](lastTimestamp # 0 =>
            /\ Elapsed >= 0 /\ Elapsed < 5000
            /\ (currentFrameRef - 1) * 5000 <= Elapsed * 99
            /\ Elapsed * 99 < currentFrameRef * 5000
            /\ (Elapsed = 0 => currentFrameRef = 1))
    /\ [](stage = "folding" =>
            backgroundImage = [color |-> currentColor, frame |-> currentFrameRef])
    /\ [][AnimationFrameFine =>
            /\ currentFrameRef' >= currentFrameRef
            /\ surfaceWritten' <=> (currentFrameRef' # currentFrameRef)
            /\ backgroundImage' # backgroundImage => currentFrameRef' > currentFrameRef]_vars
    /\ [][\A ts \in NextStamps(FineFirstStamps, FineDeltas) :
            animate(ts) /\ startTimeRef # 0 =>
                IF ts - startTimeRef >= 5000
                THEN /\ stage' = "floating" /\ currentFrameRef' = 100
                     /\ currentImage' = 100 /\ backgroundImage'.frame = 100
                ELSE stage' = "folding"]_vars

\* one millisecond before the end of the run: frame 99
C10_Witness ==
    stage = "folding" /\ lastTimestamp # 0 /\ Elapsed = 4999 /\ currentFrameRef = 99

\* C11: on every connection the wire starts with the register message, sent
\* in the step that opens the connection and never again; everything after
\* it is a new_feedback message, and nothing is sent before the connection
\* has opened.
C11_RegisterFirst ==
    /\ [](wsReadyState = "CONNECTING" => wire = <<>>)
    /\ [](wire # <<>> =>
            /\ wire[1] = [type |-> "register", clientType |-> "tablet"]
            /\ \A i \in 2..Len(wire) : wire[i].type = "new_feedback")
    /\ [][wire' # wire /\ wire' # <<>> /\ wire'[Len(wire')].type = "register" =>
            wsReadyState = "CONNECTING" /\ wsReadyState' = "OPEN" /\ wire = <<>>]_vars
    /\ [][wsReadyState = "CONNECTING" /\ wsReadyState' = "OPEN" =>
            wire' = <<[type |-> "register", clientType |-> "tablet"]>>]_vars

\* two cycles completed; the wire carries the register message and then
\* the feedback of one of them
C11_Witness ==
    /\ cycles = 2 /\ Len(wire) = 2
    /\ wire[1].type = "register" /\ wire[2].type = "new_feedback"

\* C12: the resolved endpoint is the configured value, unmodified, whenever
\* one is configured, whatever the host; otherwise ws://localhost:3001 on
\* localhost and 127.0.0.1; otherwise wss: on an https page and ws: on any
\* other, then // and the host name, then : and the port when there is one.
C12_EndpointResolution ==
    [](WS_URL # <<>> =>
        LET configured == environment.REACT_APP_WS_URL
            supplied == configured # <<>> /\ configured[1] # ""
            local == environment.hostname \in {"localhost", "127.0.0.1"}
            scheme == IF environment.protocol = "https:" THEN "wss:" ELSE "ws:"
            suffix == IF environment.port = "" THEN "" ELSE ":" \o environment.port
        IN /\ supplied => WS_URL[1] = configured[1]
           /\ ~supplied /\ local => WS_URL[1] = "ws://localhost:3001"
           /\ ~supplied /\ ~local =>
                WS_URL[1] = scheme \o "//" \o environment.hostname \o suffix
           /\ environment = [REACT_APP_WS_URL |-> <<>>, hostname |-> "app.example.com",
                             protocol |-> "https:", port |-> ""]
                => WS_URL[1] = "wss://app.example.com"
           /\ environment = [REACT_APP_WS_URL |-> <<>>, hostname |-> "10.0.0.7",
                             protocol |-> "http:", port |-> "8443"]
                => WS_URL[1] = "ws://10.0.0.7:8443")

\* a configured endpoint resolved on a page served from localhost
C12_Witness ==
    /\ WS_URL = <<"wss://feedback.example.org/ws">>
    /\ environment.hostname = "localhost"

\* the remaining branches: localhost without configuration, and the same
\* host over https with a port
C12_LocalReached ==
    /\ WS_URL = <<"ws://localhost:3001">>
    /\ environment.hostname = "127.0.0.1" /\ environment.REACT_APP_WS_URL = <<"">>
C12_SameHostReached == WS_URL = <<"wss://app.example.com:8443">>

\* C13: the colour changes only in the step that takes the stage from sent
\* to form; that step leaves the persisted colour equal to the colour
\* chosen; and in every state the persisted colour is the current colour.
C13_RotationDiscipline ==
    /\ [][currentColor' # currentColor => stage = "sent" /\ stage' = "form"]_vars
    /\ [][stage = "sent" /\ stage' = "form" => lastFeedbackColor' = currentColor']_vars
    /\ [](lastFeedbackColor = currentColor)

\* C14: the colour a reset timer's getNextColor(currentColor) returns is never
\* the colour passed to it, whatever localStorage holds when it runs.
C14_ExplicitPrevious ==
    [][ResetTimer => currentColor' # timerColor /\ lastFeedbackColor' # timerColor]_vars

\* the call of a second reset timer of one gesture: the colour passed is the
\* one of the gesture, localStorage holds the colour the first timer chose
C14_StaleStorageReached ==
    resetTimers = 1 /\ stage = "form" /\ timerColor # lastFeedbackColor

\* C15: in an animation run the callback that first writes a frame to the
\* surface, short of the end of the run, sets the will-change hint; the hint
\* is set at some state of every run; and it is cleared in floating, sent
\* and form.
C15_HintLifecycle ==
    /\ [][stage = "folding" /\ stage' = "folding" /\ lastTimestamp # 0
            /\ currentFrameRef = 1 /\ currentFrameRef' # 1 =>
                willChange' = "background-image"]_vars
    /\ [][stage = "folding" /\ stage' = "floating" /\ currentFrameRef # 1 =>
            willChange = "background-image"]_vars
    /\ [](stage \in {"floating", "sent", "form"} => willChange = "auto")

\* the hint is clear in every state, those of a run under way included
C15_HintNeverSet == willChange = "auto"

\* a run under way whose frames have been written to the surface
C15_RunReached ==
    stage = "folding" /\ currentFrameRef > 1 /\ backgroundImage.frame = currentFrameRef

\* C16: within one cycle the commit runs once: no commit is taken while an
\* earlier one awaits its render, so at most one reset timer is ever
\* pending, a gesture puts at most one new_feedback message on the wire, and
\* the colour is rotated once, on leaving sent.
C16_CommitOnce ==
    /\ [][resetTimers' > resetTimers => ~commitPending /\ resetTimers = 0]_vars
    /\ [][wire' # wire /\ wire'[Len(wire')].type = "new_feedback" => ~commitPending]_vars
    /\ [](resetTimers <= 1)
    /\ [][currentColor' # currentColor => stage = "sent"]_vars

\* C18: the tracked frame number is 0 in form, 1 in folding and 100 in
\* floating and sent; in form the background shown is frame 1 of the current
\* colour, in folding the frame the animation has reached, in floating and
\* sent frame 100; and the background always belongs to the current colour.
C18_TrackedFrame ==
    /\ [](stage = "form" => currentImage = 0)
    /\ [](stage = "folding" => currentImage = 1)
    /\ [](stage \in {"floating", "sent"} => currentImage = 100)
    /\ [](stage = "form" => backgroundImage = [color |-> currentColor, frame |-> 1])
    /\ [](stage = "folding" => backgroundImage.frame = currentFrameRef)
    /\ [](stage \in {"floating", "sent"} => backgroundImage.frame = 100)
    /\ [](backgroundImage.color = currentColor)

\* back in form after a cycle: tracked frame 0, frame 1 of the new colour shown
C18_Witness ==
    /\ cycles = 1 /\ stage = "form" /\ currentImage = 0 /\ currentFrameRef = 100
    /\ backgroundImage = [color |-> currentColor, frame |-> 1]

\* C19: the colour never changes while a preload run or the preload effect
\* is outstanding; at most one run is in flight at any time and it is a run
\* of the current colour; and the ready flag is raised, and the cache
\* filled, only by a run of the current colour.
C19_NoStalePreload ==
    /\ [][currentColor' # currentColor => preloads = <<>> /\ ~preloadEffectPending]_vars
    /\ [](Len(preloads) <= 1)
    /\ [](\A i \in DOMAIN preloads : preloads[i].theme = currentColor)
    /\ [][~imagesPreloaded /\ imagesPreloaded' =>
            \E i \in DOMAIN preloads : preloads[i].grace /\ preloads[i].theme = currentColor]_vars
    /\ [][imageCache' # imageCache /\ imageCache'.theme # "null" =>
            imageCache'.theme = currentColor /\ currentColor' = currentColor]_vars

\* C20: FormData changes only by field input in form and in the reset step;
\* outside form all three fields are non-empty and stay as they are; every
\* new_feedback message carries the FormData of that moment, non-empty, and
\* the colour of the frames shown; and a gesture reference point exists only
\* in floating and sent.
C20_FrozenFormData ==
    /\ [][formData' # formData =>
            \/ stage = "form" /\ stage' = "form" /\ FieldInput
            \/ ResetTimer /\ formData' = [name |-> "", email |-> "", message |-> ""]]_vars
    /\ [](stage # "form" => formData.name # "" /\ formData.email # "" /\ formData.message # "")
    /\ [][stage' # "form" => formData' = formData]_vars
    /\ [][wire' # wire /\ wire'[Len(wire')].type = "new_feedback" =>
            LET feedback == wire'[Len(wire')].feedback
            IN /\ feedback.name = formData.name /\ feedback.name # ""
               /\ feedback.email = formData.email /\ feedback.email # ""
               /\ feedback.message = formData.message /\ feedback.message # ""
               /\ feedback.color = currentColor
               /\ feedback.color = backgroundImage.color
               /\ backgroundImage.frame = 100]_vars
    /\ [](touchStart # <<>> => stage \in {"floating", "sent"})
    /\ [][touchStart' # touchStart =>
            \/ stage = "floating" /\ stage' = "floating" /\ touchStart' # <<>>
            \/ stage' = "form" /\ touchStart' = <<>>]_vars

\* the feedback of the second cycle on the wire, the form of that cycle and
\* the reference point of its gesture still in place
C20_Witness ==
    /\ cycles = 1 /\ stage = "sent" /\ touchStart # <<>>
    /\ wire # <<>> /\ wire[Len(wire)].type = "new_feedback"
    /\ wire[Len(wire)].feedback.name = formData.name
    /\ wire[Len(wire)].feedback.color = currentColor

\* C17: when the animation effect is torn down or superseded while a frame
\* is requested, the request is cancelled unless the effect starts a new
\* run, and the hint is left cleared; a frame is requested only for the run
\* of a mounted component in folding; and once the component is unmounted no
\* callback is outstanding and nothing changes the stage, the tracked frame
\* or the surface.
C17_AnimationCancelled ==
    /\ [][animationRef /\ (~mounted' \/ <<stage', currentColor', imagesPreloaded'>>
                                         # <<stage, currentColor, imagesPreloaded>>) =>
            /\ animationRef' => stage' = "folding" /\ lastTimestamp' = 0 /\ currentFrameRef' = 1
            /\ willChange' = "auto"]_vars
    /\ [](animationRef => mounted /\ stage = "folding" /\ imagesPreloaded)
    /\ [](~mounted => ~animationRef /\ willChange = "auto")
    /\ [][~mounted => UNCHANGED <<stage, currentImage, currentFrameRef, backgroundImage,
                                  startTimeRef, animationRef, willChange>>]_vars

\* unmounted in the middle of a run, frames 2 to 99 on the surface
C17_Witness ==
    /\ ~mounted /\ stage = "folding" /\ ~animationRef
    /\ startTimeRef # 0 /\ currentFrameRef > 1 /\ currentFrameRef < 100
    /\ backgroundImage.frame = currentFrameRef

====
